---- MODULE Spec2Model ----
(***************************************************************************)
(* The PolyRPC client (packages/client/src/index.ts): the recursive proxy  *)
(* that accumulates a route address, the query / mutate handlers that      *)
(* build a request description, buildUrl, and executeRequest with its      *)
(* hooks, timeout timer, merged abort signal and error classification.     *)
(* One call is followed from navigation to settlement.                     *)
(*                                                                         *)
(* The hooks and the transport are caller code: what each does when it is  *)
(* invoked (return, throw, defer, reject; resolve, reject) is chosen at    *)
(* the invocation. onRequest, when it returns, returns the description it  *)
(* was given or one of its own. A body decode depends on the response      *)
(* alone; an abort that arrives after the response does not fail it. The   *)
(* caller's signal is followed until the call settles.                     *)
(*                                                                         *)
(* Beside Spec, which follows that call, five specifications follow the    *)
(* parts one call does not exercise: BuildSpec applies buildUrl, the       *)
(* handlers' header merge, buildQueryKey, the proxies' get traps and the   *)
(* configuration merge to drawn arguments; TreeSpec follows descents from  *)
(* every node the caller holds; BindingSpec follows the React Query        *)
(* bindings of one node of the namespace createPolyRPC returns, and what   *)
(* the query client is handed and runs; PairSpec follows calls pending at  *)
(* once; WatchSpec follows the watcher of the editor extension             *)
(* (packages/vscode/src/extension.ts).                                     *)
(***************************************************************************)
EXTENDS Integers, Sequences, FiniteSets, TLC

\* ------------------------------------------------------------------ bounds
\* Deepest route address the navigation explores.
MaxDepth == 3

\* ------------------------------------------------------- JavaScript values
\* Values are tagged records; each tag has its own payload field.
JsUndefined == [t |-> "undefined"]
JsNull == [t |-> "null"]
JsNumber(n) == [t |-> "number", n |-> n]
JsBoolean(b) == [t |-> "boolean", b |-> b]
JsString(s) == [t |-> "string", s |-> s]
\* An object is its own entries in insertion order: <<key, value>> pairs.
JsObject(entries) == [t |-> "object", entries |-> entries]

\* ToBoolean of the language: what `input ? a : b` and `a || b` test.
Truthy(v) ==
  CASE v.t = "undefined" -> FALSE
    [] v.t = "null" -> FALSE
    [] v.t = "number" -> v.n # 0
    [] v.t = "boolean" -> v.b
    [] v.t = "string" -> v.s # ""
    [] OTHER -> TRUE

\* String(value), as buildUrl applies it to query parameter values.
ToStr(v) ==
  CASE v.t = "undefined" -> "undefined"
    [] v.t = "null" -> "null"
    [] v.t = "number" -> ToString(v.n)
    [] v.t = "boolean" -> (IF v.b THEN "true" ELSE "false")
    [] v.t = "string" -> v.s
    [] OTHER -> "[object Object]"

\* JSON text of a primitive.
StringifyPrimitive(v) ==
  CASE v.t = "null" -> "null"
    [] v.t = "number" -> ToString(v.n)
    [] v.t = "boolean" -> (IF v.b THEN "true" ELSE "false")
    [] v.t = "string" -> "\"" \o v.s \o "\""
    [] OTHER -> "null"

RECURSIVE StringifyEntries(_)
\* The members of an object, undefined-valued members left out.
StringifyEntries(es) ==
  IF es = <<>> THEN ""
  ELSE LET e == es[1]
           rest == StringifyEntries(Tail(es))
       IN IF e[2].t = "undefined" THEN rest
          ELSE "\"" \o e[1] \o "\":" \o StringifyPrimitive(e[2])
               \o (IF rest = "" THEN "" ELSE "," \o rest)

\* JSON.stringify(value): the body text of a write call.
JSONStringify(v) ==
  IF v.t = "object" THEN "{" \o StringifyEntries(v.entries) \o "}"
  ELSE StringifyPrimitive(v)

\* ------------------------------------------------------------ error values
\* new PolyRPCError(message, status, code, details)
PolyRPCError(message, status, code, details) ==
  [cls |-> "PolyRPCError", name |-> "PolyRPCError", message |-> message,
   status |-> status, code |-> code, details |-> details]

\* Any other thrown Error (cls is its constructor, name its .name).
Thrown(cls, name, message) == [cls |-> cls, name |-> name, message |-> message]

\* ------------------------------------------------------------ configuration
\* DEFAULT_CONFIG.baseUrl, as a sequence of characters.
DefaultBaseUrl == <<"/", "a", "p", "i">>

\* Base URLs a caller configures: the default, and one ending in a slash.
BaseUrls == {DefaultBaseUrl, DefaultBaseUrl \o <<"/">>}

\* config.fetch: a transport that rejects with an AbortError once the signal
\* it was handed is aborted (the platform fetch), or one that never looks at
\* the signal.
Transports == {"honoursSignal", "ignoresSignal"}

\* The merged configuration createClient hands to every node. The hooks are
\* caller code: what each does when invoked is chosen where it is invoked.
Configs == [baseUrl : BaseUrls, fetch : Transports]

\* ------------------------------------------------------------------- inputs
\* Property names a caller may read on a node that are not reserved.
Segments == {"a", "b"}

\* Inputs of a write call: absent, falsy and truthy values.
MutateInputs ==
  {JsUndefined, JsNumber(0), JsString(""),
   JsObject(<< <<"id", JsNumber(1)>> >>)}

\* Inputs of a read call: absent, or an object of query parameters.
QueryInputs ==
  {JsUndefined, JsObject(<< <<"q", JsNull>>, <<"id", JsNumber(1)>> >>)}

\* MutationOptions.method: absent or an override.
MethodOverrides == {JsUndefined} \cup {JsString(m) : m \in {"PUT", "DELETE"}}

\* QueryOptions.signal: none, a signal not yet aborted, one already aborted.
SignalOptions == {"none", "fresh", "aborted"}

\* ---------------------------------------------------------------- buildUrl
RECURSIVE Concat(_)
\* The string a sequence of characters or strings spells.
Concat(cs) == IF cs = <<>> THEN "" ELSE cs[1] \o Concat(Tail(cs))

\* baseUrl.replace(/\/$/, ''): one trailing slash removed.
StripTrailingSlash(cs) ==
  IF Len(cs) > 0 /\ cs[Len(cs)] = "/" THEN SubSeq(cs, 1, Len(cs) - 1) ELSE cs

RECURSIVE Join(_, _)
\* path.join(sep)
Join(path, sep) ==
  IF path = <<>> THEN ""
  ELSE IF Len(path) = 1 THEN path[1]
  ELSE path[1] \o sep \o Join(Tail(path), sep)

\* How params.toString() writes a key or a value (the form-urlencoded
\* serialisation): a space becomes '+', any other character outside
\* A-Z a-z 0-9 * - . _ becomes its %XX escape. Given for the strings that
\* occur as keys and values here; those not listed have no such character.
FormEncode(s) ==
  CASE s = "a b" -> "a+b"
    [] s = "x&y" -> "x%26y"
    [] s = "[object Object]" -> "%5Bobject+Object%5D"
    [] OTHER -> s

RECURSIVE SearchParamsKeepingNull(_)
\* A loop that skips undefined values only.
SearchParamsKeepingNull(es) ==
  IF es = <<>> THEN <<>>
  ELSE IF es[1][2].t = "undefined" THEN SearchParamsKeepingNull(Tail(es))
  ELSE <<FormEncode(es[1][1]) \o "=" \o FormEncode(ToStr(es[1][2]))>>
       \o SearchParamsKeepingNull(Tail(es))

RECURSIVE SearchParams(_)
\* The URLSearchParams built by the loop and written by toString(): one
\* key=value per entry whose value is neither undefined nor null, in the
\* entries' own order.
SearchParams(es) ==
  IF es = <<>> THEN <<>>
  ELSE IF es[1][2].t \in {"undefined", "null"} THEN SearchParams(Tail(es))
  ELSE <<FormEncode(es[1][1]) \o "=" \o FormEncode(ToStr(es[1][2]))>>
       \o SearchParams(Tail(es))

buildUrl(baseUrl, path, queryParams) ==
  LET url == Concat(StripTrailingSlash(baseUrl)) \o "/" \o Join(path, "/")
      queryString ==
        IF Truthy(queryParams) /\ queryParams.t = "object"
        THEN Join(SearchParams(queryParams.entries), "&")
        ELSE ""
  IN IF queryString # "" THEN url \o "?" \o queryString ELSE url

\* ------------------------------------------------------------------- proxy
\* The get trap of the proxy: what reading property prop of a node yields.
ProxyGet(target, prop) ==
  CASE prop = "query" -> [kind |-> "query", path |-> target]
    [] prop = "mutate" -> [kind |-> "mutate", path |-> target]
    [] prop \in {"__path", "__config"} -> [kind |-> "internal", path |-> target]
    [] OTHER -> [kind |-> "node", path |-> Append(target, prop)]

\* ---------------------------------------------------------------- handlers
\* A handler that drops the per-call override and always uses POST.
MutateMethodIgnoringOverride(override) == "POST"

\* options.method || 'POST'
MutateMethod(override) == IF Truthy(override) THEN override.s ELSE "POST"

\* body: input ? JSON.stringify(input) : undefined
MutateBody(input) ==
  IF Truthy(input) THEN JsString(JSONStringify(input)) ELSE JsUndefined

\* A query handler that sends its input as a JSON body to the bare route.
QueryRequestWithBody(config, path, input, signal) ==
  [url |-> buildUrl(config.baseUrl, path, JsUndefined),
   method |-> "GET", body |-> MutateBody(input), signal |-> signal]

\* The url and RequestInit the query handler builds.
QueryRequest(config, path, input, signal) ==
  [url |-> buildUrl(config.baseUrl, path, input),
   method |-> "GET", body |-> JsUndefined, signal |-> signal]

\* The url and RequestInit the mutate handler builds.
MutateRequest(config, path, input, override, signal) ==
  [url |-> buildUrl(config.baseUrl, path, JsUndefined),
   method |-> MutateMethod(override), body |-> MutateBody(input),
   signal |-> signal]

\* ---------------------------------------------------------------- transport
\* Structured values a response body may spell.
JsonDomain ==
  {JsObject(<< <<"id", JsNumber(1)>> >>),
   JsObject(<< <<"code", JsString("NOT_FOUND")>> >>)}

\* JSON.parse over the bodies the transport sends: the value whose JSON text
\* the body is, or a failure when the body is no JSON text.
JSONParse(text) ==
  LET vs == {v \in JsonDomain : JSONStringify(v) = text}
  IN IF vs = {} THEN [ok |-> FALSE, value |-> JsUndefined]
     ELSE [ok |-> TRUE, value |-> CHOOSE v \in vs : TRUE]

\* Response bodies: JSON texts, and plain text.
Bodies == {JSONStringify(v) : v \in JsonDomain} \cup {"Internal Server Error"}

\* Statuses the transport answers with, success and non-success.
Statuses == {200, 404, 500}

\* Responses the transport resolves with. A oneShot body can be read once
\* (the platform Response); otherwise it can be decoded again.
Responses == [status : Statuses, body : Bodies, oneShot : BOOLEAN]

\* response.ok
ResponseOk(r) == r.status >= 200 /\ r.status <= 299

\* response.json(): reads the body, then parses it.
ResponseJson(r) ==
  LET p == JSONParse(r.body)
  IN IF p.ok THEN [ok |-> TRUE, value |-> p.value]
     ELSE [ok |-> FALSE,
           error |-> Thrown("SyntaxError", "SyntaxError", "Unexpected token")]

\* response.text() after response.json() has read the body.
ResponseTextAfterJson(r) ==
  IF r.oneShot
  THEN [ok |-> FALSE, error |-> Thrown("TypeError", "TypeError", "Body is unusable")]
  ELSE [ok |-> TRUE, value |-> JsString(r.body)]

\* What the transport rejects with when its signal is aborted.
AbortError == Thrown("DOMException", "AbortError", "The operation was aborted")

\* What the transport rejects with when no response arrives.
FetchFailure == Thrown("TypeError", "TypeError", "Failed to fetch")

\* What a hook throws, or rejects its deferred result with.
HookFailure(hook) == Thrown("Error", "Error", hook \o " failed")

\* ----------------------------------------------------------- executeRequest
\* controller.abort(): aborts the signal and dispatches its abort event, once.
ControllerAbort(c) ==
  IF c.aborted THEN c ELSE [aborted |-> TRUE, events |-> c.events + 1]

\* (errorData as { code?: string })?.code
CodeOf(errorData) ==
  IF errorData.t = "object"
     /\ \E i \in 1..Len(errorData.entries) : errorData.entries[i][1] = "code"
  THEN LET i == CHOOSE i \in 1..Len(errorData.entries) :
                  errorData.entries[i][1] = "code"
       IN errorData.entries[i][2]
  ELSE JsUndefined

\* The error built for a response that is not ok.
RemoteError(r, errorData) ==
  PolyRPCError("Request failed with status " \o ToString(r.status), r.status,
               CodeOf(errorData), errorData)

StatusTimeout == 408

StatusNetwork == 0

\* The error built for an abort or timeout.
TimeoutError ==
  PolyRPCError("Request timeout", StatusTimeout, JsString("TIMEOUT"), JsUndefined)

\* The error built for anything else the try block throws.
NetworkError(error) ==
  PolyRPCError(IF error.cls \in {"Error", "TypeError", "SyntaxError", "DOMException"}
               THEN error.message ELSE "Network error",
               StatusNetwork, JsString("NETWORK_ERROR"), JsUndefined)

\* error instanceof PolyRPCError
IsPolyRPCError(error) == error.cls = "PolyRPCError"

\* A test that takes whatever was thrown for an abort.
IsAbortErrorForAnyError(error) == TRUE

\* error instanceof DOMException && error.name === 'AbortError'
IsAbortError(error) == error.cls = "DOMException" /\ error.name = "AbortError"

\* The catch block of executeRequest, run on what the try block threw, with
\* onError behaving as hook ("returns" or "throws"): the errors handed to
\* onError, and what the call is rejected with.
CatchBlock(error, hook) ==
  IF IsPolyRPCError(error)
  THEN [reported |-> <<>>, threw |-> 0, rejected |-> error]
  ELSE LET e == IF IsAbortError(error) THEN TimeoutError ELSE NetworkError(error)
       IN [reported |-> <<e>>,
           threw |-> IF hook = "throws" THEN 1 ELSE 0,
           rejected |-> IF hook = "throws" THEN HookFailure("onError") ELSE e]

\* The not-ok branch of the try block on decoded errorData, then the catch
\* block on whatever it throws: onError behaves as hook1 on its first
\* invocation and as hook2 on a second one.
NotOkBranch(r, errorData, hook1, hook2) ==
  LET error == RemoteError(r, errorData)
      thrown == IF hook1 = "throws" THEN HookFailure("onError") ELSE error
      c == CatchBlock(thrown, hook2)
  IN [reported |-> <<error>> \o c.reported,
      threw |-> (IF hook1 = "throws" THEN 1 ELSE 0) + c.threw,
      rejected |-> c.rejected]

\* -------------------------------------------------------------------- state
VARIABLES
  config,      \* the merged configuration shared by every node
  path,        \* __path of the node the caller holds
  pc,          \* where the call is: nav, onRequest, fetching, decoding,
               \* onResponse, done
  call,        \* the handler's arguments: kind, input, method option
  request,     \* the url and RequestInit of the call
  fetchLog,    \* the requests handed to config.fetch, in order
  timer,       \* the timeout timer: unset, armed, cleared, fired
  controller,  \* the call's AbortController: aborted, abort events dispatched
  external,    \* the caller's signal: state, listener attached, pc it fired at
  transport,   \* config.fetch's promise: idle, pending, resolved,
               \* rejectedAbort, rejectedNetwork
  response,    \* the response config.fetch resolved with
  hooks,       \* what onRequest and onResponse did, the errors given to onError
  outcome,     \* how the promise returned to the caller settled
  nodes,       \* the nodes of the client's tree the caller has obtained
  store,       \* the operations handed to the query client, in order
  ran,         \* the thunk or direct operation run last, and what it did
  args,        \* the arguments a request-building function is applied to
  value,       \* what that function returned
  calls,       \* concurrent calls of one client: where each is, its outcome
  scopes,      \* the timer and AbortController each invocation created
  watchProcess,\* the editor extension's module-level watcher handle
  processes    \* the watcher processes the extension has spawned

\* The state of the nodes, the binding layer and the function applications:
\* a call of the base client leaves it alone.
elsewhere ==
  <<nodes, store, ran, args, value, calls, scopes, watchProcess, processes>>

\* Concurrent calls of one client.
pair == <<calls, scopes>>

\* The editor extension's watcher.
watcher == <<watchProcess, processes>>

\* The state of one call of the base client.
calling ==
  <<pc, call, request, fetchLog, timer, controller, external, transport,
    response, hooks, outcome>>

vars ==
  <<config, path, pc, call, request, fetchLog, timer, controller, external,
    transport, response, hooks, outcome, nodes, store, ran, args, value,
    calls, scopes, watchProcess, processes>>

NoCall == [kind |-> "none", input |-> JsUndefined, method |-> JsUndefined]

NoRequest ==
  [url |-> "", method |-> "", body |-> JsUndefined, signal |-> "none"]

NoResponse == [status |-> 0, body |-> "", oneShot |-> FALSE]

Pending == [tag |-> "pending"]

Resolved(data) == [tag |-> "resolved", data |-> data]

Rejected(error) == [tag |-> "rejected", error |-> error]

\* createProxy([], mergedConfig): the target of the root node.
RootNode(c) == [__path |-> <<>>, __config |-> c]

NoRun == [op |-> "none"]

NoArgs == [fn |-> "none"]

NotApplied == [t |-> "notApplied"]

\* No call has been made: executeRequest has not been entered.
CallIdle ==
  /\ pc = "nav"
  /\ call = NoCall
  /\ request = NoRequest
  /\ fetchLog = <<>>
  /\ timer = "unset"
  /\ controller = [aborted |-> FALSE, events |-> 0]
  /\ external = [state |-> "none", listening |-> FALSE, firedAt |-> "never"]
  /\ transport = "idle"
  /\ response = NoResponse
  /\ hooks = [onRequest |-> "unused", onResponse |-> "unused",
              onError |-> <<>>, onErrorThrew |-> 0]
  /\ outcome = Pending

\* Calls a caller has pending at once.
NumCalls == 2

\* An invocation of executeRequest that has not been made.
NotIssued == [pc |-> "idle", signal |-> "none", listening |-> FALSE,
              outcome |-> Pending]

\* The timer and controller of an invocation that has created neither.
NoScope == [timer |-> "unset", aborted |-> FALSE]

\* No call has been issued.
NoPair ==
  /\ calls = [i \in 1..NumCalls |-> NotIssued]
  /\ scopes = [i \in 1..NumCalls |-> NoScope]

\* let watchProcess: ChildProcess | null = null
Null == 0

\* The extension was activated and has spawned nothing.
NoWatcher ==
  /\ watchProcess = Null
  /\ processes = <<>>

\* createClient: the root node of a client with some configuration.
Init ==
  /\ config \in Configs
  /\ path = <<>>
  /\ CallIdle
  /\ NoPair
  /\ NoWatcher
  /\ nodes = <<RootNode(config)>>
  /\ store = <<>>
  /\ ran = NoRun
  /\ args = NoArgs
  /\ value = NotApplied

\* Reading a property that is no reserved name: the child node.
Descend(prop) ==
  /\ pc = "nav"
  /\ Len(path) < MaxDepth
  /\ ProxyGet(path, prop).kind = "node"
  /\ path' = ProxyGet(path, prop).path
  /\ UNCHANGED <<elsewhere, config, pc, call, request, fetchLog, timer, controller,
                 external, transport, response, hooks, outcome>>

\* executeRequest up to its first await: onRequest is invoked on init and
\* either throws (hook = "throws") or returns a value or deferred result.
EnterExecuteRequest(init, hook) ==
  /\ request' = init
  /\ external' = [state |-> init.signal, listening |-> FALSE,
                  firedAt |-> IF init.signal = "aborted" THEN "before" ELSE "never"]
  /\ IF hook = "throws"
     THEN /\ pc' = "done"
          /\ hooks' = [hooks EXCEPT !.onRequest = "threw"]
          /\ outcome' = Rejected(HookFailure("onRequest"))
     ELSE /\ pc' = "onRequest"
          /\ hooks' = [hooks EXCEPT !.onRequest = "invoked"]
          /\ outcome' = outcome
  /\ UNCHANGED <<elsewhere, config, path, fetchLog, timer, controller, transport,
                 response>>

\* node.query(input, options)
InvokeQuery(input, signal, hook) ==
  /\ pc = "nav"
  /\ ProxyGet(path, "query").kind = "query"
  /\ call' = [kind |-> "query", input |-> input, method |-> JsUndefined]
  /\ EnterExecuteRequest(QueryRequest(config, path, input, signal), hook)

\* node.mutate(input, options)
InvokeMutate(input, override, signal, hook) ==
  /\ pc = "nav"
  /\ ProxyGet(path, "mutate").kind = "mutate"
  /\ call' = [kind |-> "mutate", input |-> input, method |-> override]
  /\ EnterExecuteRequest(MutateRequest(config, path, input, override, signal), hook)

\* A description onRequest returns in place of the one it was given: a copy
\* with a method of the hook's own.
Replacement(init) == [init EXCEPT !.method = "OPTIONS"]

\* An executor that hands the transport the description the handler built.
TransformedInitIgnoringHook(init, replaced) == init

\* transformedInit = await config.onRequest(init): the description given, or
\* the hook's replacement.
TransformedInit(init, replaced) ==
  IF replaced THEN Replacement(init) ELSE init

\* onRequest's result arrives, the description it was given or a
\* replacement: the timer is armed, the caller's signal (if any) gets an
\* abort listener, the controller's signal replaces it, and the transport is
\* invoked with the description that arrived.
OnRequestReturned(replaced) ==
  /\ pc = "onRequest"
  /\ hooks' = [hooks EXCEPT !.onRequest =
                               IF replaced THEN "replaced" ELSE "returned"]
  /\ timer' = "armed"
  /\ external' = [external EXCEPT !.listening = (request.signal # "none")]
  /\ LET transformedInit == TransformedInit(request, replaced)
     IN fetchLog' = Append(fetchLog, [url |-> request.url,
                                      method |-> transformedInit.method,
                                      body |-> transformedInit.body])
  /\ transport' = "pending"
  /\ pc' = "fetching"
  /\ UNCHANGED <<elsewhere, config, path, call, request, controller, response, outcome>>

\* onRequest's deferred result is rejected: the call is rejected with it.
OnRequestRejected ==
  /\ pc = "onRequest"
  /\ hooks' = [hooks EXCEPT !.onRequest = "rejected"]
  /\ outcome' = Rejected(HookFailure("onRequest"))
  /\ pc' = "done"
  /\ UNCHANGED <<elsewhere, config, path, call, request, fetchLog, timer, controller,
                 external, transport, response>>

\* The timeout elapses: the timer's callback aborts the controller.
TimerFire ==
  /\ timer = "armed"
  /\ timer' = "fired"
  /\ controller' = ControllerAbort(controller)
  /\ UNCHANGED <<elsewhere, config, path, pc, call, request, fetchLog, external,
                 transport, response, hooks, outcome>>

\* The caller aborts its signal while the call is unsettled: the listener,
\* if attached, aborts the controller.
ExternalAbort ==
  /\ pc \notin {"nav", "done"}
  /\ external.state = "fresh"
  /\ external' = [external EXCEPT !.state = "aborted", !.firedAt = pc]
  /\ controller' = IF external.listening THEN ControllerAbort(controller)
                   ELSE controller
  /\ UNCHANGED <<elsewhere, config, path, pc, call, request, fetchLog, timer, transport,
                 response, hooks, outcome>>

\* A clearTimeout that leaves the timer as it is.
ClearTimeoutLeavingArmed(t) == t

\* clearTimeout(timeoutId): an armed timer is disarmed.
ClearTimeout(t) == IF t = "armed" THEN "cleared" ELSE t

\* The call is rejected from the catch block, which clears the timer first;
\* c is what the block did, h the hooks' record when it was entered.
SettleFromCatch(h, c) ==
  /\ timer' = ClearTimeout(timer)
  /\ hooks' = [h EXCEPT !.onError = h.onError \o c.reported,
                        !.onErrorThrew = h.onErrorThrew + c.threw]
  /\ outcome' = Rejected(c.rejected)
  /\ pc' = "done"

\* What onError does when invoked.
HookBehaviours == {"returns", "throws"}

\* What onResponse does when invoked: returns the data, returns other data,
\* throws, or returns a deferred result.
OnResponseBehaviours == {"returns", "transforms", "throws", "defers"}

\* config.fetch resolves with a response: the timer is cleared and the body
\* decode starts.
FetchResolve(r) ==
  /\ pc = "fetching"
  /\ config.fetch = "ignoresSignal" \/ ~controller.aborted
  /\ transport' = "resolved"
  /\ response' = r
  /\ timer' = ClearTimeout(timer)
  /\ pc' = "decoding"
  /\ UNCHANGED <<elsewhere, config, path, call, request, fetchLog, controller, external,
                 hooks, outcome>>

\* config.fetch rejects because its signal was aborted.
FetchRejectAbort(hook) ==
  /\ pc = "fetching"
  /\ config.fetch = "honoursSignal" /\ controller.aborted
  /\ transport' = "rejectedAbort"
  /\ SettleFromCatch(hooks, CatchBlock(AbortError, hook))
  /\ UNCHANGED <<elsewhere, config, path, call, request, fetchLog, controller, external,
                 response>>

\* config.fetch rejects because no response arrived.
FetchRejectNetwork(hook) ==
  /\ pc = "fetching"
  /\ config.fetch = "ignoresSignal" \/ ~controller.aborted
  /\ transport' = "rejectedNetwork"
  /\ SettleFromCatch(hooks, CatchBlock(FetchFailure, hook))
  /\ UNCHANGED <<elsewhere, config, path, call, request, fetchLog, controller, external,
                 response>>

\* The body of a response that is not ok is decoded: json first, text when
\* json fails; the error is built, reported and thrown.
DecodeNotOk(hook1, hook2) ==
  /\ pc = "decoding"
  /\ ~ResponseOk(response)
  /\ LET j == ResponseJson(response)
         t == ResponseTextAfterJson(response)
     IN IF j.ok
        THEN SettleFromCatch(hooks, NotOkBranch(response, j.value, hook1, hook2))
        ELSE IF t.ok
        THEN SettleFromCatch(hooks, NotOkBranch(response, t.value, hook1, hook2))
        ELSE SettleFromCatch(hooks, CatchBlock(t.error, hook1))
  /\ UNCHANGED <<elsewhere, config, path, call, request, fetchLog, controller, external,
                 transport, response>>

\* The body of an ok response is decoded and onResponse is invoked on it.
DecodeOk(onResponse, hook) ==
  /\ pc = "decoding"
  /\ ResponseOk(response)
  /\ LET j == ResponseJson(response)
     IN IF ~j.ok THEN SettleFromCatch(hooks, CatchBlock(j.error, hook))
        ELSE IF onResponse = "throws"
        THEN SettleFromCatch([hooks EXCEPT !.onResponse = "threw"],
                             CatchBlock(HookFailure("onResponse"), hook))
        ELSE IF onResponse = "defers"
        THEN /\ pc' = "onResponse"
             /\ hooks' = [hooks EXCEPT !.onResponse = "invoked"]
             /\ UNCHANGED <<timer, outcome>>
        ELSE /\ pc' = "done"
             /\ hooks' = [hooks EXCEPT !.onResponse = "returned"]
             /\ outcome' = Resolved([value |-> j.value,
                                     transformed |-> onResponse = "transforms"])
             /\ UNCHANGED timer
  /\ UNCHANGED <<elsewhere, config, path, call, request, fetchLog, controller, external,
                 transport, response>>

\* onResponse's deferred result arrives: the call resolves with it.
OnResponseReturned(transformed) ==
  /\ pc = "onResponse"
  /\ hooks' = [hooks EXCEPT !.onResponse = "returned"]
  /\ outcome' = Resolved([value |-> ResponseJson(response).value,
                          transformed |-> transformed])
  /\ pc' = "done"
  /\ UNCHANGED <<elsewhere, config, path, call, request, fetchLog, timer, controller,
                 external, transport, response>>

\* onResponse's deferred result is rejected: nothing awaits it inside the try
\* block, so the call is rejected with it.
OnResponseRejected ==
  /\ pc = "onResponse"
  /\ hooks' = [hooks EXCEPT !.onResponse = "rejected"]
  /\ outcome' = Rejected(HookFailure("onResponse"))
  /\ pc' = "done"
  /\ UNCHANGED <<elsewhere, config, path, call, request, fetchLog, timer, controller,
                 external, transport, response>>

Next ==
  \/ \E prop \in Segments : Descend(prop)
  \/ \E input \in QueryInputs, signal \in SignalOptions, hook \in HookBehaviours :
       InvokeQuery(input, signal, hook)
  \/ \E input \in MutateInputs, override \in MethodOverrides,
        signal \in SignalOptions, hook \in HookBehaviours :
       InvokeMutate(input, override, signal, hook)
  \/ \E replaced \in BOOLEAN : OnRequestReturned(replaced)
  \/ OnRequestRejected
  \/ TimerFire
  \/ ExternalAbort
  \/ \E r \in Responses : FetchResolve(r)
  \/ \E hook \in HookBehaviours : FetchRejectAbort(hook)
  \/ \E hook \in HookBehaviours : FetchRejectNetwork(hook)
  \/ \E hook1, hook2 \in HookBehaviours : DecodeNotOk(hook1, hook2)
  \/ \E onResponse \in OnResponseBehaviours, hook \in HookBehaviours :
       DecodeOk(onResponse, hook)
  \/ \E transformed \in BOOLEAN : OnResponseReturned(transformed)
  \/ OnResponseRejected

Spec == Init /\ [][Next]_vars

\* ========================================================= request building
\* buildUrl, the headers of a request description and buildQueryKey are
\* functions of their arguments: each is applied once to arguments drawn
\* from the sets below.

\* DEFAULT_CONFIG, with the platform transport.
DefaultConfig == [baseUrl |-> DefaultBaseUrl, fetch |-> "honoursSignal"]

\* Route addresses: the segment sequences navigation reaches, and users.get.
Addresses ==
  UNION {[1..n -> Segments] : n \in 0..MaxDepth} \cup {<<"users", "get">>}

\* Base URLs buildUrl is applied to: also an empty one, and one ending in
\* two slashes.
BuildBaseUrls == BaseUrls \cup {<<>>, DefaultBaseUrl \o <<"/", "/">>}

\* Inputs buildUrl is applied to: absent, null, and objects with no entry,
\* with entries to skip, with several entries, with keys and values that
\* toString() escapes, with a nested object.
BuildUrlInputs ==
  {JsUndefined, JsNull, JsObject(<<>>),
   JsObject(<< <<"id", JsNumber(1)>> >>),
   JsObject(<< <<"q", JsNull>> >>),
   JsObject(<< <<"q", JsNull>>, <<"id", JsNumber(1)>> >>),
   JsObject(<< <<"id", JsNumber(1)>>, <<"q", JsUndefined>>,
               <<"ok", JsBoolean(FALSE)>> >>),
   JsObject(<< <<"q", JsString("")>>, <<"n", JsNumber(0)>> >>),
   JsObject(<< <<"id", JsNumber(1)>>, <<"name", JsString("a b")>> >>),
   JsObject(<< <<"x&y", JsBoolean(TRUE)>> >>),
   JsObject(<< <<"f", JsObject(<< <<"id", JsNumber(1)>> >>)>> >>)}

\* [...] of values.
JsArray(items) == [t |-> "array", items |-> items]

\* The value held under key in entries, undefined when there is none.
Lookup(entries, key) ==
  IF \E i \in 1..Len(entries) : entries[i][1] = key
  THEN entries[CHOOSE i \in 1..Len(entries) : entries[i][1] = key][2]
  ELSE JsUndefined

\* key in object
HasKey(entries, key) == \E i \in 1..Len(entries) : entries[i][1] = key

\* object[key] = v: an existing key keeps its place, a new one goes last.
Put(entries, key, v) ==
  IF HasKey(entries, key)
  THEN [i \in 1..Len(entries) |->
          IF entries[i][1] = key THEN <<key, v>> ELSE entries[i]]
  ELSE Append(entries, <<key, v>>)

RECURSIVE Spread(_, _)
\* { ...target, ...source }: the entries of source put over those of target.
Spread(target, source) ==
  IF source = <<>> THEN target
  ELSE Spread(Put(target, source[1][1], source[1][2]), Tail(source))

\* Header names a caller configures or overrides.
HeaderNames == {"Content-Type", "Authorization", "X-Trace"}

\* config.headers and options.headers: absent or empty, one header, two,
\* a content type of the caller's own.
HeaderObjects ==
  {<<>>,
   << <<"Authorization", JsString("k1")>> >>,
   << <<"Authorization", JsString("k2")>> >>,
   << <<"X-Trace", JsString("t")>> >>,
   << <<"Authorization", JsString("k1")>>, <<"X-Trace", JsString("t")>> >>,
   << <<"Content-Type", JsString("text/plain")>> >>,
   << <<"Content-Type", JsString("text/xml")>>,
      <<"Authorization", JsString("k2")>> >>}

\* createClient: headers: { ...DEFAULT_CONFIG.headers, ...config.headers }
MergedHeaders(configHeaders) == Spread(<<>>, configHeaders)

\* The JSON content type a handler starts its headers with.
JsonContentType == <<"Content-Type", JsString("application/json")>>

\* Headers in which the configured defaults are put over the per-call ones.
RequestHeadersDefaultsLast(configHeaders, optionHeaders) ==
  Spread(Spread(<<JsonContentType>>, optionHeaders), configHeaders)

\* Headers without a content type of the handler's own.
RequestHeadersWithoutContentType(configHeaders, optionHeaders) ==
  Spread(Spread(<<>>, configHeaders), optionHeaders)

\* headers: { 'Content-Type': 'application/json', ...config.headers,
\*            ...options.headers }, in both handlers.
RequestHeaders(configHeaders, optionHeaders) ==
  Spread(Spread(<<JsonContentType>>, configHeaders), optionHeaders)

\* The segments of a path as values.
Strings(p) == [i \in 1..Len(p) |-> JsString(p[i])]

\* A key that carries the input only when the input is truthy.
buildQueryKeyWhenTruthy(p, input) ==
  LET key == <<JsString("polyrpc")>> \o Strings(p)
  IN IF Truthy(input) THEN Append(key, input) ELSE key

\* A key that carries the input even when it is absent.
buildQueryKeyAlwaysPushing(p, input) ==
  Append(<<JsString("polyrpc")>> \o Strings(p), input)

\* const key = ['polyrpc', ...path]; if (input !== undefined) key.push(input)
buildQueryKey(p, input) ==
  LET key == <<JsString("polyrpc")>> \o Strings(p)
  IN IF input # JsUndefined THEN Append(key, input) ELSE key

\* Inputs buildQueryKey is applied to: absent, null, falsy and truthy
\* values, a string that is also a segment, objects.
KeyInputs ==
  {JsUndefined, JsNull, JsNumber(0), JsString("a"), JsObject(<<>>),
   JsObject(<< <<"id", JsNumber(1)>> >>)}

\* ================================================================ the tree
\* The nodes of the base client: a descent from any node the caller holds
\* creates a node; the nodes created before stay reachable.

\* Most nodes the caller obtains.
MaxNodes == 5

\* A descent that pushes the segment onto the parent's own __path and hands
\* that array to the child.
CreateChildPushingOntoParent(heap, i, prop) ==
  Append([heap EXCEPT ![i].__path = Append(@, prop)],
         [__path |-> Append(heap[i].__path, prop),
          __config |-> heap[i].__config])

\* createProxy([...target.__path, prop], target.__config) on node i: a new
\* target with a copy of the parent's path and the parent's configuration.
CreateChild(heap, i, prop) ==
  Append(heap, [__path |-> ProxyGet(heap[i].__path, prop).path,
                __config |-> heap[i].__config])

TreeInit ==
  /\ config \in Configs
  /\ path = <<>>
  /\ CallIdle
  /\ NoPair
  /\ NoWatcher
  /\ nodes = <<RootNode(config)>>
  /\ store = <<>>
  /\ ran = NoRun
  /\ args = NoArgs
  /\ value = NotApplied

\* Reading property prop, no reserved name, of node i.
DescendFrom(i, prop) ==
  /\ Len(nodes) < MaxNodes
  /\ Len(nodes[i].__path) < MaxDepth
  /\ ProxyGet(nodes[i].__path, prop).kind = "node"
  /\ nodes' = CreateChild(nodes, i, prop)
  /\ UNCHANGED <<config, path, calling, pair, watcher, store, ran, args, value>>

TreeNext == \E i \in 1..Len(nodes), prop \in Segments : DescendFrom(i, prop)

TreeSpec == TreeInit /\ [][TreeNext]_vars

\* ======================================================= the binding layer
\* createPolyRPC: the namespace py over the base client and a query client.
\* The caller navigates py and uses the bindings of the node reached; the
\* query client records what it is handed and runs the thunks it was given,
\* whenever and as often as it chooses.

\* Most operations handed to the query client.
MaxOps == 2

\* baseClient = createClient(mergedConfig): the root proxy.
BaseClient == [t |-> "proxy", path |-> <<>>]

\* Names every object inherits from Object.prototype.
ObjectPrototypeKeys == {"constructor", "toString", "valueOf", "hasOwnProperty"}

\* key in current. The proxy has no has trap, so the question goes to its
\* target, which holds __path and __config and inherits from
\* Object.prototype.
In(key, current) ==
  IF current.t = "proxy"
  THEN key \in {"__path", "__config"} \cup ObjectPrototypeKeys
  ELSE key \in ObjectPrototypeKeys

\* typeof current === 'object'
TypeofObject(current) == current.t \in {"proxy", "object", "array", "null"}

\* current[key]: on a proxy, what its get trap returns.
PropertyOf(current, key) ==
  IF current.t = "proxy"
  THEN LET got == ProxyGet(current.path, key)
       IN CASE got.kind = "node" -> [t |-> "proxy", path |-> got.path]
            [] got.kind \in {"query", "mutate"} ->
                 [t |-> "function", kind |-> got.kind, path |-> got.path]
            [] OTHER -> [t |-> "object", entries |-> <<>>]
  ELSE [t |-> "function", kind |-> "builtin", path |-> <<>>]

RECURSIVE getNestedValue(_, _)
\* getNestedValue(obj, path)
getNestedValue(obj, keys) ==
  IF keys = <<>> THEN obj
  ELSE IF Truthy(obj) /\ TypeofObject(obj) /\ In(keys[1], obj)
  THEN getNestedValue(PropertyOf(obj, keys[1]), Tail(keys))
  ELSE JsUndefined

\* A function of the caller's own.
CallerFunction == [t |-> "function", kind |-> "caller", path |-> <<>>]

\* () => queryFn(input), queryFn being getNestedValue(client, [...path, 'query'])
QueryThunk(p, input) ==
  [t |-> "function", kind |-> "queryThunk",
   fn |-> getNestedValue(BaseClient, Append(p, "query")), input |-> input]

\* (input) => mutateFn(input), mutateFn being
\* getNestedValue(client, [...path, 'mutate'])
MutationThunk(p) ==
  [t |-> "function", kind |-> "mutationThunk",
   fn |-> getNestedValue(BaseClient, Append(p, "mutate"))]

\* The get trap of the binding namespace.
ReactProxyGet(target, prop) ==
  CASE prop \in {"useQuery", "useMutation", "getQueryKey", "prefetch",
                 "invalidate"} -> [kind |-> prop, path |-> target]
    [] prop \in {"query", "mutate"} ->
         [kind |-> "direct", path |-> target,
          callee |-> getNestedValue(BaseClient, Append(target, prop))]
    [] prop \in {"__path", "__config", "__client"} ->
         [kind |-> "internal", path |-> target]
    [] OTHER -> [kind |-> "node", path |-> Append(target, prop)]

\* Options a caller gives useQuery: none, options of the store's, a key or
\* a thunk of the caller's own.
QueryOptionObjects ==
  {<<>>,
   << <<"enabled", JsBoolean(FALSE)>> >>,
   << <<"queryKey", JsArray(<<JsString("mine")>>)>> >>,
   << <<"queryFn", CallerFunction>> >>}

\* Options a caller gives useMutation: none, a callback, a thunk of the
\* caller's own.
MutationOptionObjects ==
  {<<>>,
   << <<"onSuccess", CallerFunction>> >>,
   << <<"mutationFn", CallerFunction>> >>}

\* Inputs given to the bindings.
BindingInputs == {JsUndefined, JsObject(<< <<"id", JsNumber(1)>> >>)}

\* useQuery({ queryKey, queryFn: () => queryFn(input), ...options })
UseQueryOptions(p, input, options) ==
  Spread(<< <<"queryKey", JsArray(buildQueryKey(p, input))>>,
            <<"queryFn", QueryThunk(p, input)>> >>, options)

\* useMutation({ mutationFn: (input) => mutateFn(input), ...options })
UseMutationOptions(p, options) ==
  Spread(<< <<"mutationFn", MutationThunk(p)>> >>, options)

\* prefetchQuery({ queryKey, queryFn: () => queryFn(input) })
PrefetchOptions(p, input) ==
  << <<"queryKey", JsArray(buildQueryKey(p, input))>>,
     <<"queryFn", QueryThunk(p, input)>> >>

\* One operation handed to the query client: its name and argument, and the
\* address and input of the binding that handed it.
StoreOp(op, arg, p, input) == [op |-> op, arg |-> arg, at |-> p, input |-> input]

\* An invalidate that prefetches the route after invalidating it.
InvalidateOpsThenPrefetch(p, input) ==
  <<StoreOp("invalidateQueries",
            << <<"queryKey", JsArray(buildQueryKey(p, input))>> >>, p, input),
    StoreOp("prefetchQuery", PrefetchOptions(p, input), p, input)>>

\* What invalidate(input) hands to the query client:
\* invalidateQueries({ queryKey }).
InvalidateOps(p, input) ==
  <<StoreOp("invalidateQueries",
            << <<"queryKey", JsArray(buildQueryKey(p, input))>> >>, p, input)>>

\* Calling what a binding holds as the base client's handler: the request
\* the handler builds, or the TypeError of calling what is no function.
CallHandler(fn, input) ==
  IF fn.t = "function" /\ fn.kind = "query"
  THEN [tag |-> "call", kind |-> "query",
        request |-> QueryRequest(config, fn.path, input, "none")]
  ELSE IF fn.t = "function" /\ fn.kind = "mutate"
  THEN [tag |-> "call", kind |-> "mutate",
        request |-> MutateRequest(config, fn.path, input, JsUndefined, "none")]
  ELSE [tag |-> "throw",
        error |-> Thrown("TypeError", "TypeError", "not a function")]

\* Running a thunk the query client holds, with the input given at
\* invocation time (a query thunk ignores it).
RunThunk(thunk, input) ==
  CASE thunk.kind = "queryThunk" -> CallHandler(thunk.fn, thunk.input)
    [] thunk.kind = "mutationThunk" -> CallHandler(thunk.fn, input)
    [] OTHER -> [tag |-> "caller"]

BindingInit ==
  /\ config = DefaultConfig
  /\ path = <<>>
  /\ CallIdle
  /\ NoPair
  /\ NoWatcher
  /\ nodes = <<RootNode(config)>>
  /\ store = <<>>
  /\ ran = NoRun
  /\ args = NoArgs
  /\ value = NotApplied

\* Reading a property of a node of py that is no reserved name. The bindings
\* followed are those of one node: the caller navigates to it first.
BindingDescend(prop) ==
  /\ store = <<>> /\ ran = NoRun
  /\ Len(path) < MaxDepth
  /\ ReactProxyGet(path, prop).kind = "node"
  /\ path' = ReactProxyGet(path, prop).path
  /\ UNCHANGED <<config, calling, pair, watcher, nodes, store, ran, args, value>>

\* node.useQuery(input, options)
UseQuery(input, options) ==
  /\ Len(store) < MaxOps
  /\ ReactProxyGet(path, "useQuery").kind = "useQuery"
  /\ store' = Append(store, StoreOp("useQuery",
                                    UseQueryOptions(path, input, options),
                                    path, input))
  /\ UNCHANGED <<config, path, calling, pair, watcher, nodes, ran, args, value>>

\* node.useMutation(options)
UseMutation(options) ==
  /\ Len(store) < MaxOps
  /\ ReactProxyGet(path, "useMutation").kind = "useMutation"
  /\ store' = Append(store, StoreOp("useMutation",
                                    UseMutationOptions(path, options),
                                    path, JsUndefined))
  /\ UNCHANGED <<config, path, calling, pair, watcher, nodes, ran, args, value>>

\* node.prefetch(input)
Prefetch(input) ==
  /\ Len(store) < MaxOps
  /\ ReactProxyGet(path, "prefetch").kind = "prefetch"
  /\ store' = Append(store, StoreOp("prefetchQuery",
                                    PrefetchOptions(path, input), path, input))
  /\ UNCHANGED <<config, path, calling, pair, watcher, nodes, ran, args, value>>

\* node.invalidate(input)
Invalidate(input) ==
  /\ Len(store) + Len(InvalidateOps(path, input)) <= MaxOps
  /\ ReactProxyGet(path, "invalidate").kind = "invalidate"
  /\ store' = store \o InvalidateOps(path, input)
  /\ UNCHANGED <<config, path, calling, pair, watcher, nodes, ran, args, value>>

\* The query client runs the queryFn it was handed in operation k.
RunQueryFn(k) ==
  /\ store[k].op \in {"useQuery", "prefetchQuery"}
  /\ ran' = [op |-> "queryFn", of |-> k, at |-> store[k].at,
             input |-> store[k].input,
             result |-> RunThunk(Lookup(store[k].arg, "queryFn"), JsUndefined)]
  /\ UNCHANGED <<config, path, calling, pair, watcher, nodes, store, args, value>>

\* The query client runs the mutationFn it was handed in operation k, with
\* the input given to the invocation.
RunMutationFn(k, input) ==
  /\ store[k].op = "useMutation"
  /\ ran' = [op |-> "mutationFn", of |-> k, at |-> store[k].at,
             input |-> input,
             result |-> RunThunk(Lookup(store[k].arg, "mutationFn"), input)]
  /\ UNCHANGED <<config, path, calling, pair, watcher, nodes, store, args, value>>

\* node.query(input) or node.mutate(input) on the binding namespace.
DirectCall(prop, input) ==
  /\ ReactProxyGet(path, prop).kind = "direct"
  /\ ran' = [op |-> prop, of |-> 0, at |-> path, input |-> input,
             result |-> CallHandler(ReactProxyGet(path, prop).callee, input)]
  /\ UNCHANGED <<config, path, calling, pair, watcher, nodes, store, args, value>>

BindingNext ==
  \/ \E prop \in Segments : BindingDescend(prop)
  \/ \E input \in BindingInputs, options \in QueryOptionObjects :
       UseQuery(input, options)
  \/ \E options \in MutationOptionObjects : UseMutation(options)
  \/ \E input \in BindingInputs : Prefetch(input)
  \/ \E input \in BindingInputs : Invalidate(input)
  \/ \E k \in 1..Len(store) : RunQueryFn(k)
  \/ \E k \in 1..Len(store), input \in BindingInputs : RunMutationFn(k, input)
  \/ \E prop \in {"query", "mutate"}, input \in BindingInputs :
       DirectCall(prop, input)

BindingSpec == BindingInit /\ [][BindingNext]_vars

\* ========================================================= concurrent calls
\* Calls of one client pending at once, each an invocation of executeRequest
\* with the default hooks; a caller's signal is given to one call only.

\* Everything but the concurrent calls.
besidePair == <<config, path, calling, watcher, nodes, store, ran, args, value>>

\* A timer and a controller held by the module and used by every invocation.
ScopeOfModule(i) == 1

\* const controller = new AbortController(); const timeoutId = setTimeout(...):
\* locals of invocation i.
ScopeOf(i) == i

\* Responses whose body can be decoded again.
PairResponses == {r \in Responses : ~r.oneShot}

\* How a call with the default hooks settles on response r.
SettledBy(r) ==
  LET j == ResponseJson(r)
      t == ResponseTextAfterJson(r)
  IN IF ResponseOk(r)
     THEN IF j.ok THEN Resolved([value |-> j.value, transformed |-> FALSE])
          ELSE Rejected(CatchBlock(j.error, "returns").rejected)
     ELSE IF j.ok
          THEN Rejected(NotOkBranch(r, j.value, "returns", "returns").rejected)
          ELSE IF t.ok
          THEN Rejected(NotOkBranch(r, t.value, "returns", "returns").rejected)
          ELSE Rejected(CatchBlock(t.error, "returns").rejected)

PairInit ==
  /\ config \in {c \in Configs : c.baseUrl = DefaultBaseUrl}
  /\ path = <<>>
  /\ CallIdle
  /\ NoPair
  /\ NoWatcher
  /\ nodes = <<RootNode(config)>>
  /\ store = <<>>
  /\ ran = NoRun
  /\ args = NoArgs
  /\ value = NotApplied

\* Call i is made: its controller and timer are created, the caller's signal
\* (if any) gets an abort listener, and the transport is invoked.
Issue(i, signal) ==
  /\ calls[i].pc = "idle"
  /\ calls' = [calls EXCEPT ![i] = [pc |-> "fetching", signal |-> signal,
                                    listening |-> signal # "none",
                                    outcome |-> Pending]]
  /\ scopes' = [scopes EXCEPT ![ScopeOf(i)] =
                                [timer |-> "armed", aborted |-> FALSE]]
  /\ UNCHANGED besidePair

\* The timeout of call i elapses: its callback aborts the call's controller.
TimerFireOf(i) ==
  /\ scopes[ScopeOf(i)].timer = "armed"
  /\ scopes' = [scopes EXCEPT ![ScopeOf(i)] = [timer |-> "fired", aborted |-> TRUE]]
  /\ UNCHANGED <<calls, besidePair>>

\* The caller aborts the signal it gave call i.
ExternalAbortOf(i) ==
  /\ calls[i].pc = "fetching"
  /\ calls[i].signal = "fresh"
  /\ calls' = [calls EXCEPT ![i].signal = "aborted"]
  /\ scopes' = IF calls[i].listening
               THEN [scopes EXCEPT ![ScopeOf(i)].aborted = TRUE]
               ELSE scopes
  /\ UNCHANGED besidePair

\* The transport of call i resolves: the timer is cleared, the body decoded.
FetchResolveOf(i, r) ==
  /\ calls[i].pc = "fetching"
  /\ config.fetch = "ignoresSignal" \/ ~scopes[ScopeOf(i)].aborted
  /\ calls' = [calls EXCEPT ![i].pc = "done", ![i].outcome = SettledBy(r)]
  /\ scopes' = [scopes EXCEPT ![ScopeOf(i)].timer = ClearTimeout(@)]
  /\ UNCHANGED besidePair

\* The transport of call i rejects because its signal was aborted.
FetchRejectAbortOf(i) ==
  /\ calls[i].pc = "fetching"
  /\ config.fetch = "honoursSignal" /\ scopes[ScopeOf(i)].aborted
  /\ calls' = [calls EXCEPT ![i].pc = "done",
                            ![i].outcome =
                              Rejected(CatchBlock(AbortError, "returns").rejected)]
  /\ scopes' = [scopes EXCEPT ![ScopeOf(i)].timer = ClearTimeout(@)]
  /\ UNCHANGED besidePair

\* The transport of call i rejects because no response arrived.
FetchRejectNetworkOf(i) ==
  /\ calls[i].pc = "fetching"
  /\ config.fetch = "ignoresSignal" \/ ~scopes[ScopeOf(i)].aborted
  /\ calls' = [calls EXCEPT ![i].pc = "done",
                            ![i].outcome =
                              Rejected(CatchBlock(FetchFailure, "returns").rejected)]
  /\ scopes' = [scopes EXCEPT ![ScopeOf(i)].timer = ClearTimeout(@)]
  /\ UNCHANGED besidePair

\* A step of call i.
StepOf(i) ==
  \/ \E signal \in SignalOptions : Issue(i, signal)
  \/ TimerFireOf(i)
  \/ ExternalAbortOf(i)
  \/ \E r \in PairResponses : FetchResolveOf(i, r)
  \/ FetchRejectAbortOf(i)
  \/ FetchRejectNetworkOf(i)

PairNext == \E i \in 1..NumCalls : StepOf(i)

PairSpec == PairInit /\ [][PairNext]_vars

\* ===================================================== the editor extension
\* The watcher of the editor extension (packages/vscode/src/extension.ts):
\* the start, stop and toggle commands, and the close and error events of
\* the processes it spawned. A process is named by its place in processes.

\* Watcher processes the extension spawns in one session.
MaxProcesses == 3

\* Everything but the watcher.
besideWatcher == <<config, path, calling, pair, nodes, store, ran, args, value>>

\* spawn(binaryPath, ['watch'], ...): a child that runs, or one that could
\* not be started; neither has had an event delivered.
Spawned(started) ==
  [status |-> IF started THEN "running" ELSE "failed", notified |-> FALSE]

\* watchProcess.kill(): a running child is killed; its close event follows.
Kill(child) ==
  IF child.status = "running" THEN [child EXCEPT !.status = "killed"] ELSE child

\* The close and error listeners startWatching attaches to child p:
\* watchProcess = null, whichever child is tracked.
OnCloseOrError(p, tracked) == Null

WatchInit ==
  /\ config = DefaultConfig
  /\ path = <<>>
  /\ CallIdle
  /\ NoPair
  /\ NoWatcher
  /\ nodes = <<RootNode(config)>>
  /\ store = <<>>
  /\ ran = NoRun
  /\ args = NoArgs
  /\ value = NotApplied

\* The body of startWatching once no watcher is tracked, in a workspace that
\* has a polyrpc.toml: the child is spawned and tracked.
SpawnWatcher(started) ==
  /\ Len(processes) < MaxProcesses
  /\ processes' = Append(processes, Spawned(started))
  /\ watchProcess' = Len(processes) + 1

\* The body of stopWatching when a watcher is tracked: it is killed and
\* forgotten.
KillWatcher ==
  /\ processes' = [processes EXCEPT ![watchProcess] = Kill(@)]
  /\ watchProcess' = Null

\* A child could not be started and its error event is yet to be delivered:
\* it is emitted on the next tick, before any command is handled.
ErrorDue ==
  \E p \in 1..Len(processes) :
    processes[p].status = "failed" /\ ~processes[p].notified

\* polyrpc.startWatching; with a watcher tracked it only shows a message.
StartWatching(started) ==
  /\ ~ErrorDue
  /\ watchProcess = Null
  /\ SpawnWatcher(started)
  /\ UNCHANGED besideWatcher

\* polyrpc.stopWatching (and deactivate); with none tracked it does nothing.
StopWatching ==
  /\ ~ErrorDue
  /\ watchProcess # Null
  /\ KillWatcher
  /\ UNCHANGED besideWatcher

\* polyrpc.toggleWatch, the status bar item's command.
ToggleWatch(started) ==
  /\ ~ErrorDue
  /\ IF watchProcess # Null THEN KillWatcher ELSE SpawnWatcher(started)
  /\ UNCHANGED besideWatcher

\* A running child ends by itself.
ProcessExit(p) ==
  /\ processes[p].status = "running"
  /\ processes' = [processes EXCEPT ![p].status = "exited"]
  /\ UNCHANGED <<watchProcess, besideWatcher>>

\* The close event of child p, which has ended or was killed, is delivered.
Close(p) ==
  /\ processes[p].status \in {"killed", "exited"}
  /\ ~processes[p].notified
  /\ processes' = [processes EXCEPT ![p] =
                     [status |-> "exited", notified |-> TRUE]]
  /\ watchProcess' = OnCloseOrError(p, watchProcess)
  /\ UNCHANGED besideWatcher

\* The error event of child p, which could not be started, is delivered.
Error(p) ==
  /\ processes[p].status = "failed"
  /\ ~processes[p].notified
  /\ processes' = [processes EXCEPT ![p].notified = TRUE]
  /\ watchProcess' = OnCloseOrError(p, watchProcess)
  /\ UNCHANGED besideWatcher

WatchNext ==
  \/ \E started \in BOOLEAN : StartWatching(started)
  \/ StopWatching
  \/ \E started \in BOOLEAN : ToggleWatch(started)
  \/ \E p \in 1..Len(processes) : ProcessExit(p)
  \/ \E p \in 1..Len(processes) : Close(p)
  \/ \E p \in 1..Len(processes) : Error(p)

WatchSpec == WatchInit /\ [][WatchNext]_vars

\* ====================================================== function applications
\* Property names read on a node: segments, the reserved operation names
\* of both namespaces, the internal names.
PropertyNames ==
  Segments \cup {"query", "mutate", "useQuery", "useMutation", "getQueryKey",
                 "prefetch", "invalidate", "__path", "__config", "__client"}

\* node[prop] on the binding namespace: what its get trap returns.
ReactPropertyOf(p, prop) ==
  LET got == ReactProxyGet(p, prop)
  IN CASE got.kind = "node" -> [t |-> "proxy", path |-> got.path]
       [] got.kind = "direct" -> got.callee
       [] got.kind = "internal" -> [t |-> "object", entries |-> <<>>]
       [] OTHER -> [t |-> "function", kind |-> got.kind, path |-> got.path]

\* DEFAULT_CONFIG.timeout
DefaultTimeout == 30000

\* A function the configuration holds: a default of the client, or the
\* caller's own.
ConfigFunction(owner) == [t |-> "function", kind |-> owner, path |-> <<>>]

\* DEFAULT_CONFIG, option by option.
DefaultOptions ==
  << <<"baseUrl", JsString("/api")>>,
     <<"fetch", ConfigFunction("globalThis.fetch")>>,
     <<"headers", JsObject(<<>>)>>,
     <<"timeout", JsNumber(DefaultTimeout)>>,
     <<"onRequest", ConfigFunction("identity")>>,
     <<"onResponse", ConfigFunction("identity")>>,
     <<"onError", ConfigFunction("noop")>> >>

\* The names of the options.
OptionNames == {DefaultOptions[i][1] : i \in 1..Len(DefaultOptions)}

\* Configurations a caller passes to createClient: none, single options,
\* options given as undefined, headers, several options.
CallerConfigs ==
  {<<>>,
   << <<"baseUrl", JsString("/v1")>> >>,
   << <<"baseUrl", JsUndefined>> >>,
   << <<"timeout", JsNumber(10)>> >>,
   << <<"timeout", JsUndefined>>, <<"onError", CallerFunction>> >>,
   << <<"headers", JsObject(<< <<"Authorization", JsString("k1")>> >>)>> >>,
   << <<"headers", JsUndefined>>, <<"onRequest", CallerFunction>> >>,
   << <<"baseUrl", JsString("/v1")>>, <<"timeout", JsNumber(10)>>,
      <<"onResponse", CallerFunction>>, <<"fetch", CallerFunction>> >>}

\* ...config.headers: the entries of an object, none for undefined.
EntriesOf(v) == IF v.t = "object" THEN v.entries ELSE <<>>

\* { ...DEFAULT_CONFIG, ...config,
\*   headers: { ...DEFAULT_CONFIG.headers, ...config.headers } }
MergeConfig(callerConfig) ==
  Put(Spread(DefaultOptions, callerConfig), "headers",
      JsObject(Spread(EntriesOf(Lookup(DefaultOptions, "headers")),
                      EntriesOf(Lookup(callerConfig, "headers")))))

\* The applications followed: each function with its arguments.
BuildArgs ==
  [fn : {"buildUrl"}, baseUrl : BuildBaseUrls, path : Addresses,
   queryParams : BuildUrlInputs]
  \cup [fn : {"queryHeaders", "mutateHeaders"}, configHeaders : HeaderObjects,
        optionHeaders : HeaderObjects]
  \cup [fn : {"buildQueryKey"}, path : Addresses, input : KeyInputs]
  \cup [fn : {"get", "reactGet"}, path : Addresses, prop : PropertyNames]
  \cup [fn : {"createClient"}, config : CallerConfigs]

BuildInit ==
  /\ config = DefaultConfig
  /\ path = <<>>
  /\ CallIdle
  /\ NoPair
  /\ NoWatcher
  /\ nodes = <<RootNode(config)>>
  /\ store = <<>>
  /\ ran = NoRun
  /\ args \in BuildArgs
  /\ value = NotApplied

\* buildUrl(baseUrl, path, queryParams)
ApplyBuildUrl ==
  /\ args.fn = "buildUrl" /\ value = NotApplied
  /\ value' = JsString(buildUrl(args.baseUrl, args.path, args.queryParams))
  /\ UNCHANGED <<config, path, calling, pair, watcher, nodes, store, ran, args>>

\* The headers of the RequestInit the query handler builds.
ApplyQueryHeaders ==
  /\ args.fn = "queryHeaders" /\ value = NotApplied
  /\ value' = JsObject(RequestHeaders(MergedHeaders(args.configHeaders),
                                      args.optionHeaders))
  /\ UNCHANGED <<config, path, calling, pair, watcher, nodes, store, ran, args>>

\* The headers of the RequestInit the mutate handler builds.
ApplyMutateHeaders ==
  /\ args.fn = "mutateHeaders" /\ value = NotApplied
  /\ value' = JsObject(RequestHeaders(MergedHeaders(args.configHeaders),
                                      args.optionHeaders))
  /\ UNCHANGED <<config, path, calling, pair, watcher, nodes, store, ran, args>>

\* buildQueryKey(path, input)
ApplyBuildQueryKey ==
  /\ args.fn = "buildQueryKey" /\ value = NotApplied
  /\ value' = JsArray(buildQueryKey(args.path, args.input))
  /\ UNCHANGED <<config, path, calling, pair, watcher, nodes, store, ran, args>>

\* node[prop] on the node of the base client at args.path.
ApplyGet ==
  /\ args.fn = "get" /\ value = NotApplied
  /\ value' = PropertyOf([t |-> "proxy", path |-> args.path], args.prop)
  /\ UNCHANGED <<config, path, calling, pair, watcher, nodes, store, ran, args>>

\* node[prop] on the node of the binding namespace at args.path.
ApplyReactGet ==
  /\ args.fn = "reactGet" /\ value = NotApplied
  /\ value' = ReactPropertyOf(args.path, args.prop)
  /\ UNCHANGED <<config, path, calling, pair, watcher, nodes, store, ran, args>>

\* createClient(config): the merged configuration.
ApplyCreateClient ==
  /\ args.fn = "createClient" /\ value = NotApplied
  /\ value' = JsObject(MergeConfig(args.config))
  /\ UNCHANGED <<config, path, calling, pair, watcher, nodes, store, ran, args>>

BuildNext ==
  \/ ApplyBuildUrl
  \/ ApplyQueryHeaders
  \/ ApplyMutateHeaders
  \/ ApplyBuildQueryKey
  \/ ApplyGet
  \/ ApplyReactGet
  \/ ApplyCreateClient

BuildSpec == BuildInit /\ [][BuildNext]_vars

\* ------------------------------------------------------------------- claims
\* The call has settled.
Done == pc = "done"

\* The call was rejected with an error of the executor's failure type.
FailedWith(status) ==
  /\ outcome.tag = "rejected"
  /\ IsPolyRPCError(outcome.error)
  /\ outcome.error.status = status

\* The errors the executor classified, in order: each is handed to onError.
Classified == hooks.onError

\* <baseUrl>/<segments joined by '/'>, the base without its trailing slash.
RouteUrl == Concat(StripTrailingSlash(config.baseUrl)) \o "/" \o Join(path, "/")

\* C1: when the timeout elapses while the transport (one that honours its
\* signal) is still pending, the controller's signal fires exactly once, the
\* call can still settle, and once settled it is rejected with the aborted
\* failure (status 408), never with a network failure (status 0).
C1_TimeoutYieldsAborted ==
  (timer = "fired" /\ config.fetch = "honoursSignal") =>
    /\ controller.events = 1
    /\ ~Done => ENABLED (\E hook \in HookBehaviours : FetchRejectAbort(hook))
    /\ Done => outcome = Rejected(TimeoutError)

\* C2: when the caller's signal fires while the transport (one that honours
\* its signal) is pending, the controller's signal is aborted and the call is
\* rejected with the aborted failure a timeout produces (status 408), which
\* is neither a network failure nor a remote failure.
C2_CancelYieldsAborted ==
  (external.firedAt = "fetching" /\ config.fetch = "honoursSignal") =>
    /\ controller.aborted
    /\ Done => /\ outcome = Rejected(TimeoutError)
               /\ outcome.error.status \notin {StatusNetwork} \cup Statuses

\* C3: a response with a non-success status s and a JSON body b ends the
\* call with a failure whose status is s, whose code is b.code (absent when b
\* has none) and whose details are b.
C3_RemoteFailureCarriesBody ==
  (Done /\ transport = "resolved" /\ ~ResponseOk(response)
        /\ JSONParse(response.body).ok) =>
    LET b == JSONParse(response.body).value
    IN /\ FailedWith(response.status)
       /\ outcome.error.code = CodeOf(b)
       /\ outcome.error.details = b

\* C4: a response with a non-success status s and a body that is no JSON
\* ends the call with a failure whose status is s and whose details are the
\* body's raw text. Stated for the calls in which onError returned normally:
\* the claim fails there already.
C4_RemoteFailureFallsBackToText ==
  (Done /\ transport = "resolved" /\ ~ResponseOk(response)
        /\ ~JSONParse(response.body).ok /\ hooks.onErrorThrew = 0) =>
    /\ FailedWith(response.status)
    /\ outcome.error.details = JsString(response.body)

\* C5: a call that ends in a classified failure has had onError invoked
\* exactly once, with the error the caller receives; a call that succeeds
\* has had it invoked zero times.
C5_OnErrorExactlyOnce ==
  Done =>
    /\ outcome.tag = "resolved" => Len(hooks.onError) = 0
    /\ (outcome.tag = "rejected"
        /\ (Classified # <<>> \/ IsPolyRPCError(outcome.error))) =>
         /\ Len(hooks.onError) = 1
         /\ IsPolyRPCError(outcome.error) => hooks.onError[1] = outcome.error

\* C6: whatever onError does, a call for which the executor classified a
\* failure is rejected with exactly that error, and is never resolved.
C6_OnErrorCannotAlterError ==
  (Done /\ Classified # <<>>) => outcome = Rejected(Classified[1])

\* C7: when onRequest or onResponse throws or rejects, the caller receives
\* exactly what the hook threw, not a network, aborted or remote failure.
\* Stated for the calls in which onError returned normally: the claim fails
\* there already.
C7_TransformFailureUnmodified ==
  (Done /\ hooks.onErrorThrew = 0) =>
    /\ hooks.onRequest \in {"threw", "rejected"} =>
         outcome = Rejected(HookFailure("onRequest"))
    /\ hooks.onResponse \in {"threw", "rejected"} =>
         outcome = Rejected(HookFailure("onResponse"))

\* C8: a call ends with a status-0 failure exactly when the transport
\* rejected, without an abort, before any response; once a response has been
\* received the call is resolved, or fails with the response's own status,
\* or fails as aborted. Stated for the calls in which no hook failed: the
\* claim fails there already.
C8_NetworkFailureOnlyWithoutResponse ==
  (Done /\ hooks.onErrorThrew = 0 /\ hooks.onResponse \in {"unused", "returned"}) =>
    /\ FailedWith(StatusNetwork) <=> transport = "rejectedNetwork"
    /\ transport = "resolved" =>
         \/ outcome.tag = "resolved"
         \/ FailedWith(response.status)
         \/ outcome = Rejected(TimeoutError)

\* C9: the request of a write call carries a body exactly when the input is
\* not absent, the body is then the JSON text of the input (also for 0,
\* false and the empty string), and its URL has no query string.
C9_WriteBodyIffInputPresent ==
  call.kind = "mutate" =>
    \A i \in 1..Len(fetchLog) :
      /\ fetchLog[i].body # JsUndefined <=> call.input # JsUndefined
      /\ call.input # JsUndefined =>
           fetchLog[i].body = JsString(JSONStringify(call.input))
      /\ fetchLog[i].url = RouteUrl

\* The method a write call is to use: the override when given, else POST.
WriteMethod == IF call.method = JsUndefined THEN "POST" ELSE call.method.s

\* Every request a write call dispatched went to the route's URL with the
\* write method.
WriteRequestsWellFormed ==
  \A i \in 1..Len(fetchLog) :
    fetchLog[i].url = RouteUrl /\ fetchLog[i].method = WriteMethod

\* C10 as stated: a settled write call at any address has dispatched exactly
\* one request, to <baseUrl>/<address>, with POST or the override.
C10_Original_ExactlyOneDispatch ==
  (Done /\ call.kind = "mutate") =>
    Len(fetchLog) = 1 /\ WriteRequestsWellFormed

\* C10 amended: a write call at any address dispatches one request, to
\* <baseUrl>/<address> with POST or the override, once onRequest has
\* returned, and none when onRequest fails; it never dispatches a second.
C10_OneDispatchOnceOnRequestReturns ==
  call.kind = "mutate" =>
    /\ Len(fetchLog) =
         (IF hooks.onRequest \in {"returned", "replaced"} THEN 1 ELSE 0)
    /\ hooks.onRequest # "replaced" => WriteRequestsWellFormed

\* C10 witness: a settled PUT at a.b.a under the default base URL, whose one
\* request went to /api/a/b/a.
C10_Witness ==
  /\ Done /\ call.kind = "mutate" /\ path = <<"a", "b", "a">>
  /\ config.baseUrl = DefaultBaseUrl
  /\ call.method = JsString("PUT")
  /\ Len(fetchLog) = 1
  /\ fetchLog[1].url = "/api/a/b/a" /\ fetchLog[1].method = "PUT"

\* An entry buildUrl is to keep: its value is neither undefined nor null.
Retained(e) == e[2].t \notin {"undefined", "null"}

\* key=value for each retained entry of input, in the input's own order, keys
\* and stringified values written by Enc.
PairsOf(input, Enc(_)) ==
  LET r == IF input.t = "object" THEN SelectSeq(input.entries, Retained)
           ELSE <<>>
  IN [i \in 1..Len(r) |-> Enc(r[i][1]) \o "=" \o Enc(ToStr(r[i][2]))]

\* The base without its trailing slash, '/', the segments joined by '/', and
\* '?' with the pairs joined by '&' exactly when there is a pair.
UrlOf(base, address, input, Enc(_)) ==
  Concat(StripTrailingSlash(base)) \o "/" \o Join(address, "/")
    \o (IF PairsOf(input, Enc) = <<>> THEN ""
        ELSE "?" \o Join(PairsOf(input, Enc), "&"))

\* Every request a read call dispatched is a GET without a body to the URL
\* of (baseUrl, address, input), the input in the query string only.
ReadRequestsWellFormed ==
  \A i \in 1..Len(fetchLog) :
    /\ fetchLog[i].method = "GET"
    /\ fetchLog[i].body = JsUndefined
    /\ fetchLog[i].url = UrlOf(config.baseUrl, path, call.input, FormEncode)

\* C11 as stated: a settled read call at address a with input i has
\* dispatched exactly one request, a GET to the URL of (baseUrl, a, i)
\* without a body.
C11_Original_ExactlyOneRead ==
  (Done /\ call.kind = "query") =>
    Len(fetchLog) = 1 /\ ReadRequestsWellFormed

\* C11 amended: a read call dispatches one request, a GET to the URL of
\* (baseUrl, a, i) without a body, once onRequest has returned, and none
\* when onRequest fails; it never dispatches a second.
C11_OneReadOnceOnRequestReturns ==
  call.kind = "query" =>
    /\ Len(fetchLog) =
         (IF hooks.onRequest \in {"returned", "replaced"} THEN 1 ELSE 0)
    /\ hooks.onRequest # "replaced" => ReadRequestsWellFormed

\* C11 witness: a settled read at a.b with input {q: null, id: 1} under the
\* base URL /api/, whose one request was a GET to /api/a/b?id=1.
C11_Witness ==
  /\ Done /\ call.kind = "query" /\ path = <<"a", "b">>
  /\ config.baseUrl = DefaultBaseUrl \o <<"/">>
  /\ call.input = JsObject(<< <<"q", JsNull>>, <<"id", JsNumber(1)>> >>)
  /\ fetchLog = <<[url |-> "/api/a/b?id=1", method |-> "GET",
                   body |-> JsUndefined]>>

\* A key or value written as it is.
Plain(s) == s

\* buildUrl has been applied.
BuiltUrl == args.fn = "buildUrl" /\ value # NotApplied

\* C12 as stated: buildUrl(baseUrl, address, input) is the base without its
\* trailing slash, '/', the segments joined by '/', then '?' and the query
\* string exactly when some entry of the input is neither undefined nor
\* null, the retained entries in the input's order as key=String(value).
C12_Original_StringifiedValues ==
  BuiltUrl =>
    value = JsString(UrlOf(args.baseUrl, args.path, args.queryParams, Plain))

\* C12 amended: as above, with each retained key and stringified value
\* written in its form-urlencoded serialisation; users.get with {id: 1}
\* gives <base>/users/get?id=1, and an absent input gives <base>/users/get.
C12_UrlWithFormEncodedPairs ==
  BuiltUrl =>
    /\ value = JsString(UrlOf(args.baseUrl, args.path, args.queryParams,
                              FormEncode))
    /\ (args.path = <<"users", "get">>
        /\ args.queryParams = JsObject(<< <<"id", JsNumber(1)>> >>)) =>
         value = JsString(Concat(StripTrailingSlash(args.baseUrl))
                          \o "/users/get?id=1")
    /\ (args.path = <<"users", "get">> /\ args.queryParams = JsUndefined) =>
         value = JsString(Concat(StripTrailingSlash(args.baseUrl))
                          \o "/users/get")

\* C12 witness: users.get under the base /api/ with {id: 1, name: "a b"}
\* gives /api/users/get?id=1&name=a+b.
C12_Witness ==
  /\ BuiltUrl
  /\ args.baseUrl = DefaultBaseUrl \o <<"/">> /\ args.path = <<"users", "get">>
  /\ args.queryParams =
       JsObject(<< <<"id", JsNumber(1)>>, <<"name", JsString("a b")>> >>)
  /\ value = JsString("/api/users/get?id=1&name=a+b")

\* A handler's headers have been built.
BuiltHeaders == args.fn \in {"queryHeaders", "mutateHeaders"} /\ value # NotApplied

\* C13: for every header name h, a request of a read or write call carries
\* the per-call value of h when the per-call headers name h, and otherwise
\* the configured value when the configured headers name h.
C13_PerCallHeaderWins ==
  BuiltHeaders =>
    \A h \in HeaderNames :
      /\ HasKey(args.optionHeaders, h) =>
           Lookup(value.entries, h) = Lookup(args.optionHeaders, h)
      /\ (~HasKey(args.optionHeaders, h) /\ HasKey(args.configHeaders, h)) =>
           Lookup(value.entries, h) = Lookup(args.configHeaders, h)

\* C13 witness: a write call configured with Authorization k1 and X-Trace t
\* and called with Authorization k2 carries k2 and still carries X-Trace t.
C13_Witness ==
  /\ BuiltHeaders /\ args.fn = "mutateHeaders"
  /\ args.configHeaders = << <<"Authorization", JsString("k1")>>,
                             <<"X-Trace", JsString("t")>> >>
  /\ args.optionHeaders = << <<"Authorization", JsString("k2")>> >>
  /\ Lookup(value.entries, "Authorization") = JsString("k2")
  /\ Lookup(value.entries, "X-Trace") = JsString("t")

\* C14 as stated: the request description carries Content-Type:
\* application/json whatever headers are configured or given per call.
C14_Original_AlwaysJsonContentType ==
  BuiltHeaders =>
    Lookup(value.entries, "Content-Type") = JsString("application/json")

\* C14 amended: the request description always carries a Content-Type; it
\* is application/json unless the per-call or the configured headers name
\* Content-Type themselves, and then it is the per-call value, else the
\* configured one.
C14_JsonContentTypeByDefault ==
  BuiltHeaders =>
    /\ HasKey(value.entries, "Content-Type")
    /\ Lookup(value.entries, "Content-Type") =
         (IF HasKey(args.optionHeaders, "Content-Type")
          THEN Lookup(args.optionHeaders, "Content-Type")
          ELSE IF HasKey(args.configHeaders, "Content-Type")
          THEN Lookup(args.configHeaders, "Content-Type")
          ELSE JsString("application/json"))

\* C14 witness: a read call configured with Authorization k1 and called
\* with X-Trace t carries Content-Type: application/json beside both.
C14_Witness ==
  /\ BuiltHeaders /\ args.fn = "queryHeaders"
  /\ args.configHeaders = << <<"Authorization", JsString("k1")>> >>
  /\ args.optionHeaders = << <<"X-Trace", JsString("t")>> >>
  /\ value = JsObject(<<JsonContentType, <<"Authorization", JsString("k1")>>,
                        <<"X-Trace", JsString("t")>> >>)

\* buildQueryKey has been applied.
BuiltKey == args.fn = "buildQueryKey" /\ value # NotApplied

\* C15: for a fixed address, the key of an input is the same on every call,
\* and the keys of two inputs are equal exactly when the inputs are equal
\* (two absent inputs being equal).
C15_KeysEqualIffInputsEqual ==
  BuiltKey =>
    /\ value = JsArray(buildQueryKey(args.path, args.input))
    /\ \A other \in KeyInputs :
         (JsArray(buildQueryKey(args.path, other)) = value)
           <=> (other = args.input)

\* C15 witness: the key of a.b with the input 0, which differs from the key
\* of a.b without input.
C15_Witness ==
  /\ BuiltKey /\ args.path = <<"a", "b">> /\ args.input = JsNumber(0)
  /\ value = JsArray(<<JsString("polyrpc"), JsString("a"), JsString("b"),
                       JsNumber(0)>>)
  /\ value # JsArray(buildQueryKey(args.path, JsUndefined))

\* C16: the key is the tag, then the segments of the address, then the raw
\* input as one last element exactly when the input is not absent; so the
\* key of an address without input differs from its key with any input.
C16_KeyIsTagAddressInput ==
  BuiltKey =>
    LET key == value.items
        n == Len(args.path)
    IN /\ Len(key) = 1 + n + (IF args.input = JsUndefined THEN 0 ELSE 1)
       /\ key[1] = JsString("polyrpc")
       /\ \A i \in 1..n : key[i + 1] = JsString(args.path[i])
       /\ args.input # JsUndefined => key[n + 2] = args.input
       /\ args.input # JsUndefined =>
            key # buildQueryKey(args.path, JsUndefined)

\* C16 witness: the key of a without input is [polyrpc, a].
C16_Witness ==
  /\ BuiltKey /\ args.path = <<"a">> /\ args.input = JsUndefined
  /\ value = JsArray(<<JsString("polyrpc"), JsString("a")>>)

\* C17: whatever options the caller gives, the key a read binding hands to
\* the query client is the key of its address and input and the thunk is
\* the layer's own read thunk, and the thunk a write binding hands over is
\* the layer's own write thunk.
C17_OptionsCannotReplaceKeyOrThunk ==
  \A k \in 1..Len(store) :
    /\ store[k].op = "useQuery" =>
         /\ Lookup(store[k].arg, "queryKey") =
              JsArray(buildQueryKey(store[k].at, store[k].input))
         /\ Lookup(store[k].arg, "queryFn") =
              QueryThunk(store[k].at, store[k].input)
    /\ store[k].op = "useMutation" =>
         Lookup(store[k].arg, "mutationFn") = MutationThunk(store[k].at)

\* The read call node(a).query(i) of the base client: the request its
\* handler builds.
BaseQuery(a, i) ==
  [tag |-> "call", kind |-> "query",
   request |-> QueryRequest(config, ProxyGet(a, "query").path, i, "none")]

\* The write call node(a).mutate(i) of the base client.
BaseMutate(a, i) ==
  [tag |-> "call", kind |-> "mutate",
   request |-> MutateRequest(config, ProxyGet(a, "mutate").path, i,
                             JsUndefined, "none")]

\* C18: a thunk of the layer, when the query client runs it, performs the
\* read call node(a).query(i) of the base client, or the write call
\* node(a).mutate(i) with the input given at invocation; query and mutate
\* read on a node of py are those same calls.
C18_ThunksPerformTheBaseCall ==
  /\ (ran.op = "queryFn" /\ ran.result.tag # "caller") =>
       ran.result = BaseQuery(ran.at, ran.input)
  /\ (ran.op = "mutationFn" /\ ran.result.tag # "caller") =>
       ran.result = BaseMutate(ran.at, ran.input)
  /\ ran.op = "query" => ran.result = BaseQuery(ran.at, ran.input)
  /\ ran.op = "mutate" => ran.result = BaseMutate(ran.at, ran.input)

\* The operations a step hands to the query client.
Handed == SubSeq(store', Len(store) + 1, Len(store'))

\* C19: a step that hands invalidateQueries to the query client hands it
\* once, with the key of the node's address and input (the tag and the
\* address alone when the input is absent), and hands over or runs nothing
\* else: no transport call, no prefetch, no other operation.
C19_InvalidateOnlyInvalidates ==
  [][(\E k \in 1..Len(Handed) : Handed[k].op = "invalidateQueries") =>
       LET input == Handed[1].input
           key == <<JsString("polyrpc")>> \o Strings(path)
                    \o (IF input = JsUndefined THEN <<>> ELSE <<input>>)
       IN /\ store' = Append(store, StoreOp("invalidateQueries",
                                            << <<"queryKey", JsArray(key)>> >>,
                                            path, input))
          /\ key = buildQueryKey(path, input)
          /\ fetchLog' = fetchLog /\ ran' = ran /\ pc' = pc]_vars

\* C19 witness: py.a.b.invalidate() has handed invalidateQueries with the
\* key [polyrpc, a, b] to the query client, and nothing was fetched or run.
C19_Witness ==
  /\ path = <<"a", "b">>
  /\ store = <<StoreOp("invalidateQueries",
                       << <<"queryKey", JsArray(<<JsString("polyrpc"),
                                                  JsString("a"),
                                                  JsString("b")>>)>> >>,
                       <<"a", "b">>, JsUndefined)>>
  /\ fetchLog = <<>> /\ ran = NoRun

\* C20: every node holds the one shared configuration; a descent from any
\* node into any segment is possible (within the bounds); a descent adds
\* one node whose address is the parent's followed by the segment, leaves
\* every node there was (the parent too) and the configuration as they
\* were, and performs no transport or query client operation.
C20_DescentAllocatesAndLeavesParent ==
  /\ [](\A i \in 1..Len(nodes) :
          /\ nodes[i].__config = config
          /\ \A prop \in Segments :
               (Len(nodes) < MaxNodes /\ Len(nodes[i].__path) < MaxDepth) =>
                 ENABLED DescendFrom(i, prop))
  /\ [][nodes' # nodes =>
         /\ \E i \in 1..Len(nodes), prop \in Segments :
              nodes' = Append(nodes,
                              [__path |-> Append(nodes[i].__path, prop),
                               __config |-> config])
         /\ config' = config
         /\ fetchLog' = fetchLog /\ store' = store /\ pc' = pc]_vars

\* C20 witness: from the root, a, then a.b and a.a both from the node a,
\* which still has the address a.
C20_Witness ==
  /\ Len(nodes) = 4
  /\ nodes[1].__path = <<>> /\ nodes[2].__path = <<"a">>
  /\ nodes[3].__path = <<"a", "b">> /\ nodes[4].__path = <<"a", "a">>
  /\ \A i \in 1..4 : nodes[i].__config = config

\* A property of a node has been read.
GotProperty == args.fn \in {"get", "reactGet"} /\ value # NotApplied

\* The reserved operation names of the namespace read.
OperationNames ==
  IF args.fn = "reactGet"
  THEN {"query", "mutate", "useQuery", "useMutation", "getQueryKey",
        "prefetch", "invalidate"}
  ELSE {"query", "mutate"}

\* The internal names of the namespace read: __client is one on the binding
\* namespace, whose nodes alone hold a client.
InternalNames ==
  IF args.fn = "reactGet" THEN {"__path", "__config", "__client"}
  ELSE {"__path", "__config"}

\* C21: reading a reserved operation name on a node yields that operation
\* bound to the node's address; reading an internal name yields a value
\* that is no node; reading any other name p yields the child node at the
\* node's address followed by p.
C21_ReservedNamesResolve ==
  GotProperty =>
    /\ args.prop \in OperationNames =>
         value = [t |-> "function", kind |-> args.prop, path |-> args.path]
    /\ args.prop \in InternalNames =>
         value.t \notin {"proxy", "function", "undefined"}
    /\ args.prop \notin OperationNames \cup InternalNames =>
         value = [t |-> "proxy", path |-> Append(args.path, args.prop)]

\* createClient has been applied.
Created == args.fn = "createClient" /\ value # NotApplied

\* C22: after createClient every option holds the caller's value when the
\* caller gave a defined one and the default otherwise; the headers are the
\* default entries with the caller's entries put over them.
C22_DefaultsUnlessOverridden ==
  Created =>
    \A o \in OptionNames \ {"headers"} :
      Lookup(value.entries, o) =
        (IF Lookup(args.config, o) # JsUndefined THEN Lookup(args.config, o)
         ELSE Lookup(DefaultOptions, o))

\* The headers of the merged configuration are the default entries with the
\* caller's entries put over them.
HeadersMergedKeyWise ==
  Created =>
    LET merged == Lookup(value.entries, "headers")
        given == EntriesOf(Lookup(args.config, "headers"))
        defaults == EntriesOf(Lookup(DefaultOptions, "headers"))
    IN /\ merged.t = "object"
       /\ \A h \in HeaderNames :
            Lookup(merged.entries, h) =
              (IF HasKey(given, h) THEN Lookup(given, h)
               ELSE Lookup(defaults, h))

\* C29: a key belongs to one route and one input: whenever the key of an
\* address and input equals the key built, the address and the input are
\* those it was built from.
C29_KeysUnambiguousAcrossRoutes ==
  BuiltKey =>
    \A a \in Addresses, i \in KeyInputs :
      JsArray(buildQueryKey(a, i)) = value => (a = args.path /\ i = args.input)

\* Keys are unambiguous among the inputs that are no strings.
KeysUnambiguousForNonStrings ==
  (BuiltKey /\ args.input.t # "string") =>
    \A a \in Addresses, i \in KeyInputs :
      (i.t # "string" /\ JsArray(buildQueryKey(a, i)) = value) =>
        (a = args.path /\ i = args.input)

\* The description onRequest handed back: its replacement, or the one built.
HookReturned ==
  IF hooks.onRequest = "replaced" THEN Replacement(request) ELSE request

\* The try block threw: the transport rejected, or it resolved and the
\* status, the body decode or onResponse failed.
FailureArose ==
  \/ transport \in {"rejectedAbort", "rejectedNetwork"}
  \/ /\ transport = "resolved"
     /\ \/ ~ResponseOk(response)
        \/ ~ResponseJson(response).ok
        \/ hooks.onResponse = "threw"

\* C24: the transport is invoked only once onRequest has returned, once, and
\* with the description onRequest returned; onResponse is invoked only on a
\* decoded body of a response with a success status; onError is invoked only
\* after a failure arose, and on an error of the executor's failure type.
C24_HooksRunInOrder ==
  /\ (transport # "idle" \/ fetchLog # <<>>) =>
       /\ hooks.onRequest \in {"returned", "replaced"}
       /\ Len(fetchLog) = 1
       /\ fetchLog[1].method = HookReturned.method
       /\ fetchLog[1].body = HookReturned.body
  /\ hooks.onResponse # "unused" =>
       /\ transport = "resolved"
       /\ ResponseOk(response)
       /\ ResponseJson(response).ok
  /\ \A i \in 1..Len(hooks.onError) :
       /\ FailureArose
       /\ IsPolyRPCError(hooks.onError[i])

\* A call whose onRequest replaced the description ran all three stages and
\* resolved.
C24_Witness ==
  /\ Done
  /\ hooks.onRequest = "replaced"
  /\ fetchLog = <<[url |-> request.url, method |-> "OPTIONS",
                   body |-> request.body]>>
  /\ hooks.onResponse = "returned"
  /\ outcome.tag = "resolved"

\* C25: once the call has settled its timer is not armed, and it can no
\* longer fire.
C25_TimerDisarmedOnceSettled ==
  Done => /\ timer # "armed"
          /\ ~ENABLED TimerFire

\* A call settled by a network failure while its timer was armed: the timer
\* was cleared.
C25_Witness ==
  /\ Done
  /\ transport = "rejectedNetwork"
  /\ timer = "cleared"
  /\ ~controller.aborted

\* The call is settled with the aborted failure.
Aborted == outcome = Rejected(TimeoutError)

\* C26: the transport is invoked at most once; the aborted outcome is
\* entered only from a pending transport whose signal was aborted; and a
\* settled call keeps its outcome and invokes the transport no more.
C26_OneTerminalOutcome ==
  /\ [](/\ Len(fetchLog) <= 1
        /\ outcome # Pending <=> Done)
  /\ [][/\ (~Aborted /\ Aborted') =>
             /\ outcome = Pending
             /\ transport = "pending"
             /\ controller.aborted
        /\ Done => UNCHANGED <<outcome, fetchLog, pc>>]_vars

\* A call aborted by its timeout, after one invocation of the transport.
C26_Witness ==
  /\ Done
  /\ Aborted
  /\ timer = "fired"
  /\ Len(fetchLog) = 1

\* C27: a call given a signal that was aborted beforehand hands the
\* transport an aborted signal when it invokes it, and is never resolved.
C27_PreAbortedSignalAborts ==
  external.firedAt = "before" =>
    /\ transport # "idle" => controller.aborted
    /\ outcome.tag # "resolved"

\* C28: from the invocation of a call until it settles its timer is armed,
\* or has fired.
C28_TimeoutCoversWholeCall ==
  pc \in {"onRequest", "fetching", "decoding", "onResponse"} =>
    timer \in {"armed", "fired"}

\* While the transport is pending the timer is armed or has fired.
TimeoutCoversTransport ==
  pc = "fetching" => timer \in {"armed", "fired"}

\* What call i depends on: its own record, and the timer and controller its
\* invocation created.
StateOf(i) == <<calls[i], scopes[ScopeOf(i)]>>

\* C23: a step of one call (its issue, timeout, cancellation or settlement)
\* leaves every other call, with its timer and controller, as it was; and a
\* call ends aborted only when its own controller was aborted.
C23_CallsDoNotInterfere ==
  /\ [](\A i \in 1..NumCalls :
          calls[i].outcome = Rejected(TimeoutError) =>
            scopes[ScopeOf(i)].aborted)
  /\ [][\A i, j \in 1..NumCalls :
          (i # j /\ StepOf(j)) => StateOf(i)' = StateOf(i)]_vars

\* Two calls are pending at once; the timer of the first has fired and
\* aborted it, the second is untouched.
C23_Witness ==
  /\ calls[1].pc = "fetching" /\ calls[2].pc = "fetching"
  /\ scopes[ScopeOf(1)] = [timer |-> "fired", aborted |-> TRUE]
  /\ scopes[ScopeOf(2)] = [timer |-> "armed", aborted |-> FALSE]

\* The spawned watcher processes that have neither exited nor been killed.
Live == {p \in 1..Len(processes) : processes[p].status = "running"}

\* C30: at most one spawned watcher process has neither exited nor been
\* killed, and it is the one the extension tracks.
C30_OneLiveWatcherTracked ==
  /\ Cardinality(Live) <= 1
  /\ \A p \in Live : watchProcess = p

\* A watcher the extension tracks is the one it spawned last.
TrackedIsNewest ==
  watchProcess # Null => watchProcess = Len(processes)

\* ------------------------------------------------- what the hook's throw costs
\* The aborted, cancelled and remote-failure outcomes, and the single
\* invocation of onError, are all lost only through a throwing onError: in
\* every call where the hook returned normally they are as specified.
TimeoutYieldsAbortedWhenHookReturns ==
  (Done /\ timer = "fired" /\ config.fetch = "honoursSignal"
        /\ hooks.onErrorThrew = 0) =>
    outcome = Rejected(TimeoutError)

CancelYieldsAbortedWhenHookReturns ==
  (Done /\ external.firedAt = "fetching" /\ config.fetch = "honoursSignal"
        /\ hooks.onErrorThrew = 0) =>
    outcome = Rejected(TimeoutError)

RemoteFailureCarriesBodyWhenHookReturns ==
  (Done /\ transport = "resolved" /\ ~ResponseOk(response)
        /\ JSONParse(response.body).ok /\ hooks.onErrorThrew = 0) =>
    outcome = Rejected(RemoteError(response, JSONParse(response.body).value))

OnErrorExactlyOnceWhenHookReturns ==
  (Done /\ outcome.tag = "rejected" /\ hooks.onErrorThrew = 0
        /\ IsPolyRPCError(outcome.error)) =>
    hooks.onError = <<outcome.error>>

====
